---- MODULE Spec2Model ----
(***************************************************************************)
(* Hotel property management: bookings, rooms and check-in records.        *)
(* The state is the datastore (Room.status, the Booking table, the CheckIn *)
(* table), the wall clock, the errors of the last request, and the         *)
(* requests the server's workers are in the middle of.  Every request      *)
(* handler of booking/views.py and checkin/views.py that writes the        *)
(* datastore is one action when requests are served one at a time;         *)
(* Booking.check_in / Booking.check_out, the model's own transition        *)
(* methods, are two more.  Served concurrently, a handler is one action    *)
(* per query it sends: nothing in the handlers opens a transaction.        *)
(***************************************************************************)
EXTENDS Integers, Sequences, FiniteSets, TLC

VARIABLES
    room_status,    \* Room.status of every room
    bookings,       \* the Booking table: bookings[pk] is the row with id pk
    checkins,       \* the CheckIn table: checkins[pk] is the row with id pk
    now,            \* timezone.now(), in hours since the start of day 0
    errors,         \* the errors reported by the last request; {} when it succeeded
    requests,       \* requests[w]: the request worker w is in the middle of
    room_rates,     \* the prices of every room: its type's and its own
    available_rooms \* the rooms the last availability search listed

vars == <<room_status, bookings, checkins, now, errors, requests, room_rates, available_rooms>>

----------------------------------------------------------------------------
(* Bounds of the model.                                                    *)

MaxDay == 2
MaxBookings == 2
MaxCheckIns == 2
MaxToday == 1
MaxNights == 3
MaxAdults == 3
MaxChildren == 1

----------------------------------------------------------------------------
(* The registries the booking core reads.                                  *)

Rooms == {"r1", "r2"}
Guests == {"g1", "g2"}

RoomStatuses == {"AVAILABLE", "OCCUPIED", "RESERVED", "MAINTENANCE"}

STATUS_CHOICES ==
    {"CONFIRMED", "CHECKED_IN", "CHECKED_OUT", "CANCELED", "NO_SHOW", "PENDING"}

NoRatePlan == "none"
NoAmount == -1
NoTime == -1
NoDate == -1
NoBooking == 0
NoId == <<>>

HoursPerDay == 24

Days == 0..MaxDay

\* datetime.date(): the calendar day of a timestamp
DateOf(t) == t \div HoursPerDay

\* date.today() / timezone.now().date()
today == DateOf(now)

\* RoomType.capacity of the room's type; 0 stands for "not defined"
capacity(room) == IF room = "r1" THEN 2 ELSE 0

\* the prices the room registry holds: r1's type has no price and r1 its own
\* default rate; r2's type has a price
ListedRates ==
    [r \in Rooms |->
        IF r = "r1" THEN [price_per_night |-> 0, rate_default |-> 1000]
        ELSE [price_per_night |-> 1500, rate_default |-> 1200]]

\* RoomType.price_per_night of the room's type; 0 stands for "not defined"
price_per_night(room) == room_rates[room].price_per_night

\* Room.rate_default; 0 stands for "not defined"
rate_default(room) == room_rates[room].rate_default

\* the active rate plans, and one that is no longer active
RatePlans == {"flat", "broken"}
InactivePlans == {"retired"}
RateError == -1

\* RatePlan.calculate_total_rate(nights, guests); RateError when it raises
calculate_total_rate(plan, nights, guests) ==
    IF plan = "flat" THEN 800 * nights
    ELSE IF plan = "retired" THEN 500 * nights
    ELSE RateError

----------------------------------------------------------------------------
(* Booking: derived values and guards (booking/models.py).                 *)

\* a faulty count: the day of departure is counted as a night
duration_nights_inclusive(b) == b.check_out_date - b.check_in_date + 1

duration_nights(b) == b.check_out_date - b.check_in_date

total_guests(b) == b.number_of_adults + b.number_of_children

\* a faulty order: the room type's price is tried before the rate plan
calculate_total_amount_price_first(b) ==
    LET nights == duration_nights(b)
        planned == IF b.rate_plan # NoRatePlan
                   THEN calculate_total_rate(b.rate_plan, nights, total_guests(b))
                   ELSE RateError
    IN  IF nights > 0
        THEN IF price_per_night(b.room) # 0 THEN price_per_night(b.room) * nights
             ELSE IF b.rate_plan # NoRatePlan /\ planned # RateError THEN planned
             ELSE IF rate_default(b.room) # 0 THEN rate_default(b.room) * nights
             ELSE 0
        ELSE 0

\* a faulty computation: the test nights > 0 is missing
calculate_total_amount_unguarded(b) ==
    LET nights == duration_nights(b)
        planned == IF b.rate_plan # NoRatePlan
                   THEN calculate_total_rate(b.rate_plan, nights, total_guests(b))
                   ELSE RateError
    IN  IF b.rate_plan # NoRatePlan /\ planned # RateError THEN planned
        ELSE IF price_per_night(b.room) # 0 THEN price_per_night(b.room) * nights
        ELSE IF rate_default(b.room) # 0 THEN rate_default(b.room) * nights
        ELSE 0

calculate_total_amount(b) ==
    LET nights == duration_nights(b)
        planned == IF b.rate_plan # NoRatePlan
                   THEN calculate_total_rate(b.rate_plan, nights, total_guests(b))
                   ELSE RateError
    IN  IF nights > 0
        THEN IF b.rate_plan # NoRatePlan /\ planned # RateError THEN planned
             ELSE IF price_per_night(b.room) # 0 THEN price_per_night(b.room) * nights
             ELSE IF rate_default(b.room) # 0 THEN rate_default(b.room) * nights
             ELSE 0
        ELSE 0

\* a faulty guard: a booking already checked in may check in again
can_check_in_again(b) == b.status \in {"CONFIRMED", "PENDING", "CHECKED_IN"}

can_check_in(b) == b.status \in {"CONFIRMED", "PENDING"}

can_check_out(b) == b.status = "CHECKED_IN"

\* a faulty guard: every booking not yet canceled may be canceled
can_cancel_unless_canceled(b) == b.status # "CANCELED"

can_cancel(b) == b.status \in {"CONFIRMED", "PENDING"}

\* Booking.save(): total_amount is recomputed when it is missing or zero
Booking_save(b) ==
    IF b.total_amount = 0 /\ calculate_total_amount(b) > 0
    THEN [b EXCEPT !.total_amount = calculate_total_amount(b)]
    ELSE b

----------------------------------------------------------------------------
(* BookingForm (booking/forms.py) and Booking.clean.                       *)

BookingPks == 1..Len(bookings)

\* a faulty status list: PENDING bookings block too
BlockingStatuses_with_pending == {"CONFIRMED", "CHECKED_IN", "PENDING"}

\* the statuses of the conflict query
BlockingStatuses == {"CONFIRMED", "CHECKED_IN"}

\* a faulty date test: < for <=, so a stay of no night passes
CheckOutBeforeCheckIn(check_in_date, check_out_date) ==
    check_out_date < check_in_date

\* check_out_date <= check_in_date, the test of both clean methods
CheckOutNotAfterCheckIn(check_in_date, check_out_date) ==
    check_out_date <= check_in_date

\* check_in_date < date.today()
CheckInInPast(check_in_date) == check_in_date < today

\* a faulty conflict query: closed intervals, __lte and __gte for __lt and __gt
overlapping_bookings_closed(pk, room, check_in_date, check_out_date) ==
    { i \in 1..Len(bookings) :
        /\ bookings[i].room = room
        /\ bookings[i].status \in {"CONFIRMED", "CHECKED_IN"}
        /\ bookings[i].check_in_date <= check_out_date
        /\ bookings[i].check_out_date >= check_in_date
        /\ i # pk }

\* a faulty conflict query: the booking being edited is not excluded
overlapping_bookings_with_self(pk, room, check_in_date, check_out_date) ==
    { i \in 1..Len(bookings) :
        /\ bookings[i].room = room
        /\ bookings[i].status \in {"CONFIRMED", "CHECKED_IN"}
        /\ bookings[i].check_in_date < check_out_date
        /\ bookings[i].check_out_date > check_in_date }

\* the queryset of BookingForm.clean; pk = 0 for a form with no instance
overlapping_bookings(pk, room, check_in_date, check_out_date) ==
    { i \in BookingPks :
        /\ bookings[i].room = room
        /\ bookings[i].status \in BlockingStatuses
        /\ bookings[i].check_in_date < check_out_date
        /\ bookings[i].check_out_date > check_in_date
        /\ i # pk }

\* a faulty capacity test: the children are not counted
CapacityExceeded_adults_only(room, adults, children) ==
    capacity(room) # 0 /\ adults > capacity(room)

\* total_guests > room.room_type.capacity, when the capacity is defined
CapacityExceeded(room, adults, children) ==
    capacity(room) # 0 /\ adults + children > capacity(room)

\* the room field's queryset: only AVAILABLE rooms for a new booking
RoomChoices(pk) ==
    IF pk = 0 THEN {r \in Rooms : room_status[r] = "AVAILABLE"} ELSE Rooms

\* field validation: the posted room and rate plan must be among the fields'
\* choices (only active rate plans are), and total_amount is required
BookingForm_fields(pk, d) ==
    (IF d.room \in RoomChoices(pk) /\ d.rate_plan \in {NoRatePlan} \cup RatePlans
     THEN {} ELSE {"InvalidChoice"})
    \cup
    (IF d.total_amount = NoAmount THEN {"Required"} ELSE {})

\* BookingForm.clean: the first ValidationError it raises, if any
BookingForm_clean(pk, d) ==
    LET room_ok == d.room \in RoomChoices(pk)
    IN  IF CheckOutNotAfterCheckIn(d.check_in_date, d.check_out_date)
            THEN {"InvalidDateRange"}
        ELSE IF CheckInInPast(d.check_in_date)
            THEN {"PastCheckIn"}
        ELSE IF room_ok /\ overlapping_bookings(pk, d.room, d.check_in_date,
                                                d.check_out_date) # {}
            THEN {"AvailabilityConflict"}
        ELSE IF room_ok /\ CapacityExceeded(d.room, d.number_of_adults,
                                            d.number_of_children)
            THEN {"CapacityExceeded"}
        ELSE {}

\* Booking.clean, run on the instance by the model form
Booking_clean(d) ==
    IF CheckOutNotAfterCheckIn(d.check_in_date, d.check_out_date)
        THEN {"InvalidDateRange"}
    ELSE IF CapacityExceeded(d.room, d.number_of_adults, d.number_of_children)
        THEN {"CapacityExceeded"}
    ELSE {}

\* form.is_valid() holds iff this set is empty
BookingFormErrors(pk, d) ==
    BookingForm_fields(pk, d) \cup BookingForm_clean(pk, d) \cup Booking_clean(d)

\* the CheckConstraint check_out_after_check_in of the table
check_out_after_check_in(b) == b.check_out_date > b.check_in_date

\* what a posted booking form carries
BookingData(G, R, P, D, A, C, S, T) ==
    { [guest |-> g, room |-> r, rate_plan |-> p,
       check_in_date |-> d[1], check_out_date |-> d[2],
       number_of_adults |-> a, number_of_children |-> c, status |-> s,
       total_amount |-> t] :
      g \in G, r \in R, p \in P, d \in D, a \in A, c \in C, s \in S,
      t \in T }

\* the instance a valid form builds: the posted fields over the stored row
construct_instance(old, d) ==
    [old EXCEPT !.guest = d.guest, !.room = d.room, !.rate_plan = d.rate_plan,
                !.check_in_date = d.check_in_date,
                !.check_out_date = d.check_out_date,
                !.number_of_adults = d.number_of_adults,
                !.number_of_children = d.number_of_children,
                !.status = d.status, !.total_amount = d.total_amount]

\* the form that posts a stored booking back unchanged
FormOf(b) ==
    [guest |-> b.guest, room |-> b.room, rate_plan |-> b.rate_plan,
     check_in_date |-> b.check_in_date, check_out_date |-> b.check_out_date,
     number_of_adults |-> b.number_of_adults,
     number_of_children |-> b.number_of_children, status |-> b.status,
     total_amount |-> b.total_amount]

\* a Booking() with the model's defaults
NewBooking ==
    [guest |-> "g1", room |-> "r1", rate_plan |-> NoRatePlan,
     check_in_date |-> 0, check_out_date |-> 0,
     number_of_adults |-> 1, number_of_children |-> 0,
     status |-> "CONFIRMED", total_amount |-> 0,
     actual_check_in_time |-> NoTime, actual_check_out_time |-> NoTime]

----------------------------------------------------------------------------
(* booking/views.py                                                        *)

booking_create(d) ==
    LET errs == BookingFormErrors(0, d)
        built == construct_instance(NewBooking, d)
        booking == Booking_save([built EXCEPT
                       !.total_amount = calculate_total_amount(built)])
    IN  IF errs = {} /\ check_out_after_check_in(booking)
        THEN /\ Len(bookings) < MaxBookings
             /\ bookings' = Append(bookings, booking)
             /\ errors' = {}
             /\ UNCHANGED <<room_status, checkins, now, requests, room_rates, available_rooms>>
        ELSE /\ errors' = IF errs = {} THEN {"IntegrityError"} ELSE errs
             /\ UNCHANGED <<room_status, bookings, checkins, now, requests, room_rates, available_rooms>>

booking_update(pk, d) ==
    LET errs == BookingFormErrors(pk, d)
        built == construct_instance(bookings[pk], d)
        booking == Booking_save([built EXCEPT
                       !.total_amount = calculate_total_amount(built)])
    IN  IF errs = {} /\ check_out_after_check_in(booking)
        THEN /\ bookings' = [bookings EXCEPT ![pk] = booking]
             /\ errors' = {}
             /\ UNCHANGED <<room_status, checkins, now, requests, room_rates, available_rooms>>
        ELSE /\ errors' = IF errs = {} THEN {"IntegrityError"} ELSE errs
             /\ UNCHANGED <<room_status, bookings, checkins, now, requests, room_rates, available_rooms>>

booking_check_in(pk) ==
    LET booking == bookings[pk]
    IN  IF can_check_in(booking)
        THEN /\ bookings' = [bookings EXCEPT ![pk] = Booking_save(
                     [booking EXCEPT !.status = "CHECKED_IN"])]
             /\ room_status' = [room_status EXCEPT ![booking.room] = "OCCUPIED"]
             /\ errors' = {}
             /\ UNCHANGED <<checkins, now, requests, room_rates, available_rooms>>
        ELSE /\ errors' = {"InvalidTransition"}
             /\ UNCHANGED <<room_status, bookings, checkins, now, requests, room_rates, available_rooms>>

\* a faulty view: the room is freed before the guard is looked at
booking_check_out_frees_first(pk) ==
    LET booking == bookings[pk]
    IN  /\ room_status' = [room_status EXCEPT ![booking.room] = "AVAILABLE"]
        /\ IF can_check_out(booking)
           THEN /\ bookings' = [bookings EXCEPT ![pk] = Booking_save(
                        [booking EXCEPT !.status = "CHECKED_OUT"])]
                /\ errors' = {}
           ELSE /\ errors' = {"InvalidTransition"}
                /\ UNCHANGED bookings
        /\ UNCHANGED <<checkins, now, requests, room_rates, available_rooms>>

booking_check_out(pk) ==
    LET booking == bookings[pk]
    IN  IF can_check_out(booking)
        THEN /\ bookings' = [bookings EXCEPT ![pk] = Booking_save(
                     [booking EXCEPT !.status = "CHECKED_OUT"])]
             /\ room_status' = [room_status EXCEPT ![booking.room] = "AVAILABLE"]
             /\ errors' = {}
             /\ UNCHANGED <<checkins, now, requests, room_rates, available_rooms>>
        ELSE /\ errors' = {"InvalidTransition"}
             /\ UNCHANGED <<room_status, bookings, checkins, now, requests, room_rates, available_rooms>>

\* a faulty view: a cancel frees the room whatever its status
booking_cancel_frees_room(pk) ==
    LET booking == bookings[pk]
    IN  IF can_cancel(booking)
        THEN /\ bookings' = [bookings EXCEPT ![pk] = Booking_save(
                     [booking EXCEPT !.status = "CANCELED"])]
             /\ room_status' = [room_status EXCEPT ![booking.room] = "AVAILABLE"]
             /\ errors' = {}
             /\ UNCHANGED <<checkins, now, requests, room_rates, available_rooms>>
        ELSE /\ errors' = {"InvalidTransition"}
             /\ UNCHANGED <<room_status, bookings, checkins, now, requests, room_rates, available_rooms>>

booking_cancel(pk) ==
    LET booking == bookings[pk]
    IN  IF can_cancel(booking)
        THEN /\ bookings' = [bookings EXCEPT ![pk] = Booking_save(
                     [booking EXCEPT !.status = "CANCELED"])]
             /\ room_status' =
                    IF room_status[booking.room] = "RESERVED"
                    THEN [room_status EXCEPT ![booking.room] = "AVAILABLE"]
                    ELSE room_status
             /\ errors' = {}
             /\ UNCHANGED <<checkins, now, requests, room_rates, available_rooms>>
        ELSE /\ errors' = {"InvalidTransition"}
             /\ UNCHANGED <<room_status, bookings, checkins, now, requests, room_rates, available_rooms>>

\* the booked_room_ids queryset of room_availability_search
booked_room_ids(check_in_date, check_out_date) ==
    { bookings[i].room : i \in
        { j \in BookingPks :
            /\ bookings[j].status \in {"CONFIRMED", "CHECKED_IN"}
            /\ bookings[j].check_in_date < check_out_date
            /\ bookings[j].check_out_date > check_in_date } }

\* what a posted search form carries
SearchData(D, A, C) ==
    { [check_in_date |-> d[1], check_out_date |-> d[2],
       number_of_adults |-> a, number_of_children |-> c] :
      d \in D, a \in A, c \in C }

\* BookingSearchForm: min_value=1 on the adults, then clean on the dates
BookingSearchFormErrors(d) ==
    (IF d.number_of_adults < 1 THEN {"MinValue"} ELSE {})
    \cup
    (IF CheckOutNotAfterCheckIn(d.check_in_date, d.check_out_date)
         THEN {"InvalidDateRange"}
     ELSE IF CheckInInPast(d.check_in_date)
         THEN {"PastCheckIn"}
     ELSE {})

\* a faulty queryset: the status of the room is not looked at
available_rooms_queryset_any_status(d) ==
    LET total == d.number_of_adults + d.number_of_children
        free == {r \in Rooms :
                    r \notin booked_room_ids(d.check_in_date, d.check_out_date)}
    IN  IF total > 0
        THEN {r \in free : capacity(r) >= total \/ capacity(r) = 0}
        ELSE free

\* the available_rooms queryset of room_availability_search
available_rooms_queryset(d) ==
    LET total == d.number_of_adults + d.number_of_children
        free == {r \in Rooms :
                    /\ room_status[r] = "AVAILABLE"
                    /\ r \notin booked_room_ids(d.check_in_date, d.check_out_date)}
    IN  IF total > 0
        THEN {r \in free : capacity(r) >= total \/ capacity(r) = 0}
        ELSE free

room_availability_search(d) ==
    LET errs == BookingSearchFormErrors(d)
    IN  /\ errors' = errs
        /\ available_rooms' = IF errs = {} THEN available_rooms_queryset(d) ELSE {}
        /\ UNCHANGED <<room_status, bookings, checkins, now, requests, room_rates>>

----------------------------------------------------------------------------
(* booking/views.py, query by query.  No handler runs inside               *)
(* transaction.atomic() or locks a row, so between two queries of one      *)
(* request the queries of another may run.                                 *)

\* the workers that serve requests at the same time
Workers == {"w1", "w2"}

\* a worker between two requests
Idle == [op |-> "idle", pk |-> 0, row |-> NewBooking]

\* the requests in flight that are about to insert a booking
creating == {w \in Workers : requests[w].op = "booking_create"}

\* booking_create up to form.save(commit=False): the form is validated
\* against the tables as they are now, and the instance is built in memory
booking_create_is_valid(w, d) ==
    LET errs == BookingFormErrors(0, d)
        built == construct_instance(NewBooking, d)
        booking == [built EXCEPT !.total_amount = calculate_total_amount(built)]
    IN  /\ requests[w] = Idle
        /\ IF errs = {}
           THEN /\ Len(bookings) + Cardinality(creating) < MaxBookings
                /\ requests' = [requests EXCEPT ![w] =
                        [op |-> "booking_create", pk |-> 0, row |-> booking]]
                /\ UNCHANGED errors
           ELSE /\ errors' = errs
                /\ UNCHANGED requests
        /\ UNCHANGED <<room_status, bookings, checkins, now, room_rates, available_rooms>>

\* booking_create from booking.save() on: the INSERT, under the table's
\* CheckConstraint
booking_create_save(w) ==
    LET booking == Booking_save(requests[w].row)
    IN  /\ requests[w].op = "booking_create"
        /\ IF check_out_after_check_in(booking)
           THEN /\ bookings' = Append(bookings, booking)
                /\ errors' = {}
           ELSE /\ errors' = {"IntegrityError"}
                /\ UNCHANGED bookings
        /\ requests' = [requests EXCEPT ![w] = Idle]
        /\ UNCHANGED <<room_status, checkins, now, room_rates, available_rooms>>

\* booking_check_in up to booking.save(): the guard and the UPDATE of the
\* booking's row
booking_check_in_save(w, pk) ==
    LET booking == bookings[pk]
        saved == Booking_save([booking EXCEPT !.status = "CHECKED_IN"])
    IN  /\ requests[w] = Idle
        /\ IF can_check_in(booking)
           THEN /\ bookings' = [bookings EXCEPT ![pk] = saved]
                /\ requests' = [requests EXCEPT ![w] =
                        [op |-> "booking_check_in", pk |-> pk, row |-> saved]]
                /\ UNCHANGED errors
           ELSE /\ errors' = {"InvalidTransition"}
                /\ UNCHANGED <<bookings, requests>>
        /\ UNCHANGED <<room_status, checkins, now, room_rates, available_rooms>>

\* booking_check_in from booking.room.save() on: the UPDATE of the room's row
booking_check_in_room_save(w) ==
    /\ requests[w].op = "booking_check_in"
    /\ room_status' = [room_status EXCEPT ![requests[w].row.room] = "OCCUPIED"]
    /\ errors' = {}
    /\ requests' = [requests EXCEPT ![w] = Idle]
    /\ UNCHANGED <<bookings, checkins, now, room_rates, available_rooms>>

\* booking_check_out up to booking.save()
booking_check_out_save(w, pk) ==
    LET booking == bookings[pk]
        saved == Booking_save([booking EXCEPT !.status = "CHECKED_OUT"])
    IN  /\ requests[w] = Idle
        /\ IF can_check_out(booking)
           THEN /\ bookings' = [bookings EXCEPT ![pk] = saved]
                /\ requests' = [requests EXCEPT ![w] =
                        [op |-> "booking_check_out", pk |-> pk, row |-> saved]]
                /\ UNCHANGED errors
           ELSE /\ errors' = {"InvalidTransition"}
                /\ UNCHANGED <<bookings, requests>>
        /\ UNCHANGED <<room_status, checkins, now, room_rates, available_rooms>>

\* booking_check_out from booking.room.save() on
booking_check_out_room_save(w) ==
    /\ requests[w].op = "booking_check_out"
    /\ room_status' = [room_status EXCEPT ![requests[w].row.room] = "AVAILABLE"]
    /\ errors' = {}
    /\ requests' = [requests EXCEPT ![w] = Idle]
    /\ UNCHANGED <<bookings, checkins, now, room_rates, available_rooms>>

----------------------------------------------------------------------------
(* Booking.check_in / Booking.check_out (booking/models.py)                *)

Booking_check_in(pk) ==
    LET booking == bookings[pk]
    IN  IF can_check_in(booking)
        THEN /\ bookings' = [bookings EXCEPT ![pk] = Booking_save(
                     [booking EXCEPT !.status = "CHECKED_IN",
                                     !.actual_check_in_time = now])]
             /\ room_status' = [room_status EXCEPT ![booking.room] = "OCCUPIED"]
             /\ errors' = {}
             /\ UNCHANGED <<checkins, now, requests, room_rates, available_rooms>>
        ELSE /\ errors' = {"InvalidTransition"}
             /\ UNCHANGED <<room_status, bookings, checkins, now, requests, room_rates, available_rooms>>

Booking_check_out(pk) ==
    LET booking == bookings[pk]
    IN  IF can_check_out(booking)
        THEN /\ bookings' = [bookings EXCEPT ![pk] = Booking_save(
                     [booking EXCEPT !.status = "CHECKED_OUT",
                                     !.actual_check_out_time = now])]
             /\ room_status' = [room_status EXCEPT ![booking.room] = "AVAILABLE"]
             /\ errors' = {}
             /\ UNCHANGED <<checkins, now, requests, room_rates, available_rooms>>
        ELSE /\ errors' = {"InvalidTransition"}
             /\ UNCHANGED <<room_status, bookings, checkins, now, requests, room_rates, available_rooms>>

----------------------------------------------------------------------------
(* CheckIn and CheckInForm (checkin/models.py, checkin/forms.py)           *)

CheckInPks == 1..Len(checkins)

PAYMENT_STATUS_CHOICES == {"PENDING", "PARTIAL", "PAID", "REFUNDED"}

\* what a posted check-in form carries
CheckInData(I, B, G, T, R, E, A, M, S) ==
    [check_in_id : I, booking : B, guest : G, actual_check_in_date_time : T,
     room_number : R, expected_check_out_date : E, advance_payment : A,
     total_amount : M, payment_status : S]

\* the booking field's queryset
BookingChoices ==
    {i \in BookingPks : bookings[i].status \in {"CONFIRMED", "CHECKED_IN"}}

\* the check-ins of a room on the calendar day of a timestamp, but for row pk
overlapping_checkins(pk, room, t) ==
    { i \in CheckInPks :
        /\ checkins[i].room_number = room
        /\ DateOf(checkins[i].actual_check_in_date_time) = DateOf(t)
        /\ i # pk }

\* field validation and the unique check of check_in_id
CheckInForm_fields(pk, d) ==
    (IF d.booking = NoBooking \/ d.booking \in BookingChoices
     THEN {} ELSE {"InvalidChoice"})
    \cup
    (IF d.check_in_id # NoId
        /\ \E i \in CheckInPks : i # pk /\ checkins[i].check_in_id = d.check_in_id
     THEN {"DuplicateId"} ELSE {})

\* a faulty test: two hours of grace for one
CheckInTooFarAhead_two_hours(t) == t > now + 2

\* actual_check_in_date_time > timezone.now() + timedelta(hours=1)
CheckInTooFarAhead(t) == t > now + 1

\* a faulty test: < for <=, so a check-out on the day of the check-in passes
ExpectedCheckOutBeforeCheckIn(expected_check_out_date, t) ==
    expected_check_out_date < DateOf(t)

\* expected_check_out_date <= actual_check_in_date_time.date()
ExpectedCheckOutNotAfterCheckIn(expected_check_out_date, t) ==
    expected_check_out_date <= DateOf(t)

\* CheckInForm.clean: the first ValidationError it raises, if any
CheckInForm_clean(pk, d) ==
    LET booking == IF d.booking \in BookingChoices THEN d.booking ELSE NoBooking
        t == d.actual_check_in_date_time
    IN  IF booking # NoBooking /\ bookings[booking].guest # d.guest
            THEN {"GuestBookingMismatch"}
        ELSE IF CheckInTooFarAhead(t)
            THEN {"FutureCheckIn"}
        ELSE IF d.expected_check_out_date # NoDate
                /\ ExpectedCheckOutNotAfterCheckIn(d.expected_check_out_date, t)
            THEN {"InvalidCheckOutDate"}
        ELSE IF d.advance_payment # 0 /\ d.total_amount # 0
                /\ d.advance_payment > d.total_amount
            THEN {"PaymentOverAdvance"}
        ELSE IF overlapping_checkins(pk, d.room_number, t) # {}
            THEN {"SameDayRoomConflict"}
        ELSE {}

CheckInFormErrors(pk, d) == CheckInForm_fields(pk, d) \cup CheckInForm_clean(pk, d)

\* f"CI{date_str}{count:03d}": the day and the sequence number
GeneratedId ==
    <<today, Cardinality({i \in CheckInPks :
                 DateOf(checkins[i].actual_check_in_date_time) = today}) + 1>>

\* a faulty save: the booking's total and check-out date replace what the
\* form supplied
CheckIn_save_always_defaults(c) ==
    LET c1 == IF c.check_in_id = NoId THEN [c EXCEPT !.check_in_id = GeneratedId]
              ELSE c
    IN  IF c1.booking # NoBooking
        THEN [c1 EXCEPT !.total_amount = bookings[c1.booking].total_amount,
                        !.expected_check_out_date =
                            bookings[c1.booking].check_out_date]
        ELSE c1

\* CheckIn.save(): the id and the defaults taken from the booking
CheckIn_save(c) ==
    LET c1 == IF c.check_in_id = NoId THEN [c EXCEPT !.check_in_id = GeneratedId]
              ELSE c
        c2 == IF c1.booking # NoBooking /\ c1.total_amount = 0
              THEN [c1 EXCEPT !.total_amount = bookings[c1.booking].total_amount]
              ELSE c1
    IN  IF c2.booking # NoBooking /\ c2.expected_check_out_date = NoDate
        THEN [c2 EXCEPT !.expected_check_out_date =
                            bookings[c2.booking].check_out_date]
        ELSE c2

\* CheckIn.remaining_amount
remaining_amount(c) == c.total_amount - c.advance_payment

\* a faulty percentage: the division is made whatever the total
payment_percentage_unguarded(c) == <<c.advance_payment * 100, c.total_amount>>

\* CheckIn.payment_percentage, as the fraction <<numerator, denominator>>: a
\* denominator of 0 is a division by zero
payment_percentage(c) ==
    IF c.total_amount > 0
    THEN <<c.advance_payment * 100, c.total_amount>>
    ELSE <<0, 1>>

\* unique=True on check_in_id, as the table enforces it on insert
check_in_id_unique(pk, c) ==
    \A i \in CheckInPks : i = pk \/ checkins[i].check_in_id # c.check_in_id

----------------------------------------------------------------------------
(* checkin/views.py                                                        *)

\* a faulty view: the room is marked OCCUPIED before the form is validated
checkin_create_occupies_first(d) ==
    LET errs == CheckInFormErrors(0, d)
        checkin == CheckIn_save(d @@ [id_proof_verified |-> FALSE])
    IN  /\ room_status' = [room_status EXCEPT ![d.room_number] = "OCCUPIED"]
        /\ IF errs = {} /\ check_in_id_unique(0, checkin)
           THEN /\ Len(checkins) < MaxCheckIns
                /\ checkins' = Append(checkins, checkin)
                /\ bookings' =
                       IF checkin.booking # NoBooking
                       THEN [bookings EXCEPT ![checkin.booking] = Booking_save(
                                [bookings[checkin.booking] EXCEPT !.status = "CHECKED_IN"])]
                       ELSE bookings
                /\ errors' = {}
           ELSE /\ errors' = IF errs = {} THEN {"IntegrityError"} ELSE errs
                /\ UNCHANGED <<bookings, checkins>>
        /\ UNCHANGED <<now, requests, room_rates, available_rooms>>

checkin_create(d) ==
    LET errs == CheckInFormErrors(0, d)
        checkin == CheckIn_save(d @@ [id_proof_verified |-> FALSE])
    IN  IF errs = {} /\ check_in_id_unique(0, checkin)
        THEN /\ Len(checkins) < MaxCheckIns
             /\ checkins' = Append(checkins, checkin)
             /\ room_status' = [room_status EXCEPT ![checkin.room_number] = "OCCUPIED"]
             /\ bookings' =
                    IF checkin.booking # NoBooking
                    THEN [bookings EXCEPT ![checkin.booking] = Booking_save(
                             [bookings[checkin.booking] EXCEPT !.status = "CHECKED_IN"])]
                    ELSE bookings
             /\ errors' = {}
             /\ UNCHANGED <<now, requests, room_rates, available_rooms>>
        ELSE /\ errors' = IF errs = {} THEN {"IntegrityError"} ELSE errs
             /\ UNCHANGED <<room_status, bookings, checkins, now, requests, room_rates, available_rooms>>

checkin_update(pk, d) ==
    LET errs == CheckInFormErrors(pk, d)
        checkin == CheckIn_save(d @@ [id_proof_verified |-> FALSE])
    IN  IF errs = {} /\ check_in_id_unique(pk, checkin)
        THEN /\ checkins' = [checkins EXCEPT ![pk] = checkin]
             /\ errors' = {}
             /\ UNCHANGED <<room_status, bookings, now, requests, room_rates, available_rooms>>
        ELSE /\ errors' = IF errs = {} THEN {"IntegrityError"} ELSE errs
             /\ UNCHANGED <<room_status, bookings, checkins, now, requests, room_rates, available_rooms>>

\* what a posted quick check-in form carries
QuickCheckInData(G, R, E, A, M) ==
    [guest : G, room_number : R, expected_check_out_date : E,
     advance_payment : A, total_amount : M]

\* QuickCheckInForm: only AVAILABLE rooms are choices, and there is no clean()
QuickCheckInFormErrors(d) ==
    IF room_status[d.room_number] = "AVAILABLE" THEN {} ELSE {"InvalidChoice"}

quick_checkin(d) ==
    LET errs == QuickCheckInFormErrors(d)
        checkin == CheckIn_save(
            [check_in_id |-> NoId, booking |-> NoBooking, guest |-> d.guest,
             actual_check_in_date_time |-> now, room_number |-> d.room_number,
             expected_check_out_date |-> d.expected_check_out_date,
             advance_payment |-> d.advance_payment,
             total_amount |-> d.total_amount, payment_status |-> "PENDING",
             id_proof_verified |-> FALSE])
    IN  IF errs = {} /\ check_in_id_unique(0, checkin)
        THEN /\ Len(checkins) < MaxCheckIns
             /\ checkins' = Append(checkins, checkin)
             /\ room_status' = [room_status EXCEPT ![checkin.room_number] = "OCCUPIED"]
             /\ errors' = {}
             /\ UNCHANGED <<bookings, now, requests, room_rates, available_rooms>>
        ELSE /\ errors' = IF errs = {} THEN {"IntegrityError"} ELSE errs
             /\ UNCHANGED <<room_status, bookings, checkins, now, requests, room_rates, available_rooms>>

\* request.POST.get('payment_status') of a request that carries none
NoPaymentStatus == "missing"

\* a faulty view: the posted value is stored without being looked at
update_payment_status_unchecked(checkin_id, new_status) ==
    /\ checkins' = [checkins EXCEPT ![checkin_id] = CheckIn_save(
               [checkins[checkin_id] EXCEPT !.payment_status = new_status])]
    /\ errors' = {}
    /\ UNCHANGED <<room_status, bookings, now, requests, room_rates, available_rooms>>

update_payment_status(checkin_id, new_status) ==
    IF new_status \in PAYMENT_STATUS_CHOICES
    THEN /\ checkins' = [checkins EXCEPT ![checkin_id] = CheckIn_save(
                [checkins[checkin_id] EXCEPT !.payment_status = new_status])]
         /\ errors' = {}
         /\ UNCHANGED <<room_status, bookings, now, requests, room_rates, available_rooms>>
    ELSE /\ errors' = {"InvalidPaymentStatus"}
         /\ UNCHANGED <<room_status, bookings, checkins, now, requests, room_rates, available_rooms>>

\* the page that leads from a booking to its check-in form: it reads the
\* check-ins of the booking and writes nothing; where there is none yet,
\* adding the query string to the redirect raises a TypeError
checkin_from_booking(booking_id) ==
    /\ errors' = IF \E i \in CheckInPks : checkins[i].booking = booking_id
                 THEN {}
                 ELSE {"TypeError"}
    /\ UNCHANGED <<room_status, bookings, checkins, now, requests, room_rates, available_rooms>>

----------------------------------------------------------------------------
(* The clock.                                                              *)

Tick ==
    /\ today < MaxToday
    /\ now' = now + HoursPerDay
    /\ UNCHANGED <<room_status, bookings, checkins, errors, requests, room_rates, available_rooms>>

----------------------------------------------------------------------------
(* The system: any request, in any order, one at a time.                   *)

\* a hotel with no booking yet and every room free
Init ==
    /\ room_status = [r \in Rooms |-> "AVAILABLE"]
    /\ bookings = <<>>
    /\ checkins = <<>>
    /\ now = 0
    /\ errors = {}
    /\ requests = [w \in Workers |-> Idle]
    /\ room_rates = ListedRates
    /\ available_rooms = {}

\* the booking forms posted in Spec: one guest, no rate plan, one adult, one stay
BookingInputs ==
    BookingData({"g1"}, Rooms, {NoRatePlan}, {<<0, 1>>}, {1}, {0},
                STATUS_CHOICES, {0})

\* the check-in forms posted in Spec: stamped now, id left blank, all for
\* room r1 whichever room the booking is for
CheckInInputs ==
    CheckInData({NoId}, {NoBooking} \cup BookingPks, {"g1"}, {now}, {"r1"},
                {NoDate}, {0}, {0}, {"PENDING"})

Create == \E d \in BookingInputs : booking_create(d)

Update == \E pk \in BookingPks : \E d \in BookingInputs : booking_update(pk, d)

ViewCheckIn == \E pk \in BookingPks : booking_check_in(pk)

ViewCheckOut == \E pk \in BookingPks : booking_check_out(pk)

ViewCancel == \E pk \in BookingPks : booking_cancel(pk)

CreateCheckIn == \E d \in CheckInInputs : checkin_create(d)

Next ==
    \/ Create
    \/ Update
    \/ ViewCheckIn
    \/ ViewCheckOut
    \/ ViewCancel
    \/ CreateCheckIn

Spec == Init /\ [][Next]_vars

----------------------------------------------------------------------------
(* The lifecycle transitions by both entry points, the views and the       *)
(* methods of Booking, on rooms of every status.  A booking gets onto a    *)
(* room that is not AVAILABLE by an edit: the edit form offers every room. *)

MethodCheckIn == \E pk \in BookingPks : Booking_check_in(pk)

MethodCheckOut == \E pk \in BookingPks : Booking_check_out(pk)

\* an edit that moves a booking to another room and changes nothing else
Move ==
    \E pk \in BookingPks : \E r \in Rooms :
        booking_update(pk, [FormOf(bookings[pk]) EXCEPT !.room = r])

NextTransitions ==
    \/ Create
    \/ Move
    \/ ViewCheckIn
    \/ ViewCheckOut
    \/ ViewCancel
    \/ MethodCheckIn
    \/ MethodCheckOut

\* room r1 in any status the room registry may have given it, room r2 free
InitRooms ==
    /\ room_status \in {f \in [Rooms -> RoomStatuses] : f["r2"] = "AVAILABLE"}
    /\ bookings = <<>>
    /\ checkins = <<>>
    /\ now = 0
    /\ errors = {}
    /\ requests = [w \in Workers |-> Idle]
    /\ room_rates = ListedRates
    /\ available_rooms = {}

SpecTransitions == InitRooms /\ [][NextTransitions]_vars

----------------------------------------------------------------------------
(* The lifecycle of bookings that start as the creation form leaves them   *)
(* by default or on request, CONFIRMED or PENDING: every later status is   *)
(* the work of a transition.                                               *)

LifecycleInputs ==
    BookingData({"g1"}, Rooms, {NoRatePlan}, {<<0, 1>>}, {1}, {0},
                {"CONFIRMED", "PENDING"}, {0})

CreateOpen == \E d \in LifecycleInputs : booking_create(d)

NextLifecycle ==
    \/ CreateOpen
    \/ Move
    \/ ViewCheckIn
    \/ ViewCheckOut
    \/ ViewCancel
    \/ MethodCheckIn
    \/ MethodCheckOut

SpecLifecycle == InitRooms /\ [][NextLifecycle]_vars

----------------------------------------------------------------------------
(* Two workers serving booking requests for one room at the same time.     *)
(* Every booking is created CONFIRMED and moves on by the views only.      *)

ConcurrentInputs ==
    BookingData({"g1"}, {"r1"}, {NoRatePlan}, {<<0, 1>>, <<0, 2>>, <<1, 2>>},
                {1}, {0}, {"CONFIRMED"}, {0})

CreateIsValid ==
    \E w \in Workers : \E d \in ConcurrentInputs : booking_create_is_valid(w, d)

CreateSave == \E w \in Workers : booking_create_save(w)

CheckInSave == \E w \in Workers : \E pk \in BookingPks : booking_check_in_save(w, pk)

CheckInRoomSave == \E w \in Workers : booking_check_in_room_save(w)

CheckOutSave == \E w \in Workers : \E pk \in BookingPks : booking_check_out_save(w, pk)

CheckOutRoomSave == \E w \in Workers : booking_check_out_room_save(w)

NextConcurrent ==
    \/ CreateIsValid
    \/ CreateSave
    \/ CheckInSave
    \/ CheckInRoomSave
    \/ CheckOutSave
    \/ CheckOutRoomSave

SpecConcurrent == Init /\ [][NextConcurrent]_vars

----------------------------------------------------------------------------
(* The check-in desk: bookings made by forms of which some are invalid,    *)
(* and check-in records created, edited and quick-created with and without *)
(* a booking, a matching guest, an advance and a total.                    *)

\* the amounts posted as advance_payment and as total_amount
Advances == {0, 2000}
Totals == {0, 1000}

\* the booking forms of the desk: all for room r1, whose type has a capacity
DeskBookingInputs ==
    BookingData({"g1"}, {"r1"}, {NoRatePlan}, {<<0, 1>>, <<1, 1>>}, {1, 3}, {0},
                {"CONFIRMED"}, {0})

DeskCheckInInputs ==
    CheckInData({NoId}, {NoBooking} \cup BookingPks, Guests, {now}, Rooms,
                {NoDate}, Advances, Totals, {"PENDING"})

DeskQuickInputs == QuickCheckInData(Guests, Rooms, {NoDate}, Advances, Totals)

DeskCreate == \E d \in DeskBookingInputs : booking_create(d)

DeskCreateCheckIn == \E d \in DeskCheckInInputs : checkin_create(d)

DeskUpdateCheckIn ==
    \E pk \in CheckInPks : \E d \in DeskCheckInInputs : checkin_update(pk, d)

DeskQuickCheckIn == \E d \in DeskQuickInputs : quick_checkin(d)

NextDesk ==
    \/ DeskCreate
    \/ DeskCreateCheckIn
    \/ DeskUpdateCheckIn
    \/ DeskQuickCheckIn

SpecDesk == Init /\ [][NextDesk]_vars

----------------------------------------------------------------------------
(* The desk over a whole stay: the booked guest checks in and out through  *)
(* the booking views, the booking is edited to another guest, and check-in *)
(* records are created by the full form and by the quick form.             *)

\* an edit that gives a booking to another guest and changes nothing else
Reassign ==
    \E pk \in BookingPks : \E g \in Guests :
        booking_update(pk, [FormOf(bookings[pk]) EXCEPT !.guest = g])

\* the check-in forms of the stay: linked to a booking, stamped now
StayCheckInInputs ==
    CheckInData({NoId}, BookingPks, Guests, {now}, Rooms, {NoDate}, {0}, {0},
                {"PENDING"})

StayQuickInputs == QuickCheckInData({"g1"}, Rooms, {NoDate}, {0}, {0})

StayCreateCheckIn == \E d \in StayCheckInInputs : checkin_create(d)

StayQuickCheckIn == \E d \in StayQuickInputs : quick_checkin(d)

NextStay ==
    \/ DeskCreate
    \/ Reassign
    \/ ViewCheckIn
    \/ ViewCheckOut
    \/ StayCreateCheckIn
    \/ StayQuickCheckIn

SpecStay == Init /\ [][NextStay]_vars

----------------------------------------------------------------------------
(* The pricing of bookings: rooms with and without a type price and a      *)
(* default rate, stays of up to MaxNights nights and stays of no night,    *)
(* every rate plan, and a total posted blank, zero or typed in.            *)

\* the prices a room may have: each one defined or not
PriceLists == [price_per_night : {0, 1500}, rate_default : {0, 1000}]

\* a total_amount typed into the form, the price of no stay
TypedTotal == 500

\* stays from day 0 of 0..MaxNights nights, and one that ends before it starts
Stays == {<<0, n>> : n \in 0..MaxNights} \cup {<<1, 0>>}

PricingInputs ==
    BookingData({"g1"}, {"r1"}, {NoRatePlan} \cup RatePlans \cup InactivePlans,
                Stays, {1}, {0}, {"CONFIRMED"}, {NoAmount, 0, TypedTotal})

\* room r1, the room of every form, with any prices; room r2 as listed
InitPricing ==
    /\ room_status = [r \in Rooms |-> "AVAILABLE"]
    /\ bookings = <<>>
    /\ checkins = <<>>
    /\ now = 0
    /\ errors = {}
    /\ requests = [w \in Workers |-> Idle]
    /\ room_rates \in {[ListedRates EXCEPT !["r1"] = p] : p \in PriceLists}
    /\ available_rooms = {}

PricingCreate == \E d \in PricingInputs : booking_create(d)

PricingUpdate ==
    \E pk \in BookingPks : \E d \in PricingInputs : booking_update(pk, d)

NextPricing ==
    \/ PricingCreate
    \/ PricingUpdate

SpecPricing == InitPricing /\ [][NextPricing]_vars

----------------------------------------------------------------------------
(* The availability search, between bookings that are made for either of   *)
(* two nights, checked in, checked out and canceled, on rooms of every     *)
(* status.                                                                 *)

\* the bookings searched around: all for room r1, whose type has a capacity
SearchableInputs ==
    BookingData({"g1"}, {"r1"}, {NoRatePlan}, {<<0, 1>>, <<1, 2>>}, {1}, {0},
                {"CONFIRMED", "PENDING"}, {0})

\* searches for either night, for both, and for no night
SearchInputs ==
    SearchData({<<0, 1>>, <<1, 2>>, <<0, 2>>, <<1, 1>>},
               0..MaxAdults, 0..MaxChildren)

CreateSearchable == \E d \in SearchableInputs : booking_create(d)

Search == \E d \in SearchInputs : room_availability_search(d)

NextSearch ==
    \/ CreateSearchable
    \/ ViewCheckIn
    \/ ViewCheckOut
    \/ ViewCancel
    \/ Search

SpecSearch == InitRooms /\ [][NextSearch]_vars

----------------------------------------------------------------------------
(* Check-in records with and without a booking, their total and expected   *)
(* check-out date left blank or typed in; the typed values are those of no *)
(* booking.                                                                *)

\* one booking, for room r1: one night at the room's default rate
FolioBookingInputs ==
    BookingData({"g1"}, {"r1"}, {NoRatePlan}, {<<0, 1>>}, {1}, {0},
                {"CONFIRMED"}, {0})

FolioCheckInInputs ==
    CheckInData({NoId}, {NoBooking} \cup BookingPks, {"g1"}, {now}, Rooms,
                {NoDate, MaxDay}, {0}, {0, TypedTotal}, {"PENDING"})

FolioQuickInputs ==
    QuickCheckInData({"g1"}, Rooms, {NoDate, MaxDay}, {0}, {0, TypedTotal})

FolioCreate == \E d \in FolioBookingInputs : booking_create(d)

FolioCreateCheckIn == \E d \in FolioCheckInInputs : checkin_create(d)

FolioUpdateCheckIn ==
    \E pk \in CheckInPks : \E d \in FolioCheckInInputs : checkin_update(pk, d)

FolioQuickCheckIn == \E d \in FolioQuickInputs : quick_checkin(d)

NextFolio ==
    \/ FolioCreate
    \/ FolioCreateCheckIn
    \/ FolioUpdateCheckIn
    \/ FolioQuickCheckIn

SpecFolio == Init /\ [][NextFolio]_vars

----------------------------------------------------------------------------
(* The check-in form over timestamps in the past, now and up to two hours  *)
(* ahead, and over every expected check-out date, as the days pass.        *)

\* walk-ins, all into room r1
TimeInputs ==
    CheckInData({NoId}, {NoBooking}, {"g1"}, {0, now, now + 1, now + 2}, {"r1"},
                {NoDate} \cup Days, {0}, {0}, {"PENDING"})

TimesCreateCheckIn == \E d \in TimeInputs : checkin_create(d)

TimesUpdateCheckIn ==
    \E pk \in CheckInPks : \E d \in TimeInputs : checkin_update(pk, d)

NextTimes ==
    \/ TimesCreateCheckIn
    \/ TimesUpdateCheckIn
    \/ Tick

SpecTimes == Init /\ [][NextTimes]_vars

----------------------------------------------------------------------------
(* Rooms and their occupants: bookings for room r1, for either of two      *)
(* nights, moved on by the views, by the methods of Booking and by check-in *)
(* records for either room, next to walk-ins; room r1 starts in any status. *)
(* No booking is edited.                                                   *)

OccupancyBookingInputs ==
    BookingData({"g1"}, {"r1"}, {NoRatePlan}, {<<0, 1>>, <<1, 2>>}, {1}, {0},
                {"CONFIRMED", "PENDING"}, {0})

OccupancyCheckInInputs ==
    CheckInData({NoId}, {NoBooking} \cup BookingPks, {"g1"}, {now}, Rooms,
                {NoDate}, {0}, {0}, {"PENDING"})

OccupancyQuickInputs == QuickCheckInData({"g1"}, Rooms, {NoDate}, {0}, {0})

OccupancyCreate == \E d \in OccupancyBookingInputs : booking_create(d)

OccupancyCreateCheckIn == \E d \in OccupancyCheckInInputs : checkin_create(d)

OccupancyQuickCheckIn == \E d \in OccupancyQuickInputs : quick_checkin(d)

FromBooking == \E pk \in BookingPks : checkin_from_booking(pk)

NextOccupancy ==
    \/ OccupancyCreate
    \/ ViewCheckIn
    \/ ViewCheckOut
    \/ ViewCancel
    \/ MethodCheckIn
    \/ MethodCheckOut
    \/ OccupancyCreateCheckIn
    \/ OccupancyQuickCheckIn
    \/ FromBooking

SpecOccupancy == InitRooms /\ [][NextOccupancy]_vars

----------------------------------------------------------------------------
(* The payment status of check-in records, with and without a booking:     *)
(* every value of the list, one of another list, and none.                 *)

PaymentCheckInInputs ==
    CheckInData({NoId}, {NoBooking} \cup BookingPks, {"g1"}, {now}, Rooms,
                {NoDate}, {0}, {0}, {"PENDING"})

PaymentInputs == PAYMENT_STATUS_CHOICES \cup {"CANCELLED", NoPaymentStatus}

PaymentCreateCheckIn == \E d \in PaymentCheckInInputs : checkin_create(d)

UpdatePayment ==
    \E pk \in CheckInPks : \E v \in PaymentInputs : update_payment_status(pk, v)

NextPayments ==
    \/ FolioCreate
    \/ PaymentCreateCheckIn
    \/ UpdatePayment

SpecPayments == Init /\ [][NextPayments]_vars

----------------------------------------------------------------------------
(* Walk-in check-ins over the days, their ids generated or typed in, their *)
(* timestamps now or back-dated to day 0.                                  *)

\* an id typed into the form: that of the second check-in of day 0
TypedId == <<0, 2>>

IdInputs ==
    CheckInData({NoId, TypedId}, {NoBooking}, {"g1"}, {0, now}, Rooms,
                {NoDate}, {0}, {0}, {"PENDING"})

CreateCheckInIds == \E d \in IdInputs : checkin_create(d)

NextIds ==
    \/ CreateCheckInIds
    \/ Tick

SpecIds == Init /\ [][NextIds]_vars

----------------------------------------------------------------------------
(* The booking form over every date range, as the days pass.               *)

DatePairs == Days \X Days

DateInputs ==
    BookingData({"g1"}, Rooms, {NoRatePlan}, DatePairs, {1}, {0},
                STATUS_CHOICES, {0})

CreateDates == \E d \in DateInputs : booking_create(d)

UpdateDates == \E pk \in BookingPks : \E d \in DateInputs : booking_update(pk, d)

NextDates ==
    \/ CreateDates
    \/ UpdateDates
    \/ Tick

SpecDates == Init /\ [][NextDates]_vars

----------------------------------------------------------------------------
(* The booking form over parties of every size, on a room whose type has a *)
(* capacity (r1) and on one whose type has none (r2).                      *)


GuestInputs ==
    BookingData({"g1"}, Rooms, {NoRatePlan}, {<<0, 1>>, <<1, 1>>},
                1..MaxAdults, 0..MaxChildren, {"CONFIRMED"}, {0})

CreateGuests == \E d \in GuestInputs : booking_create(d)

UpdateGuests == \E pk \in BookingPks : \E d \in GuestInputs : booking_update(pk, d)

NextGuests ==
    \/ CreateGuests
    \/ UpdateGuests

SpecGuests == Init /\ [][NextGuests]_vars

----------------------------------------------------------------------------
(* Properties of the booking lifecycle.                                    *)

\* [a, b) and [c, d) share a night
Overlap(a, b, c, d) == a < d /\ c < b

SameRoomOverlap(i, j) ==
    /\ bookings[i].room = bookings[j].room
    /\ Overlap(bookings[i].check_in_date, bookings[i].check_out_date,
               bookings[j].check_in_date, bookings[j].check_out_date)

\* C1: any two distinct bookings on the same room whose statuses are both
\* CONFIRMED or CHECKED_IN have non-overlapping intervals
\* [check_in_date, check_out_date).
NoDoubleBooking ==
    \A i, j \in BookingPks :
        ( /\ i # j
          /\ bookings[i].status \in {"CONFIRMED", "CHECKED_IN"}
          /\ bookings[j].status \in {"CONFIRMED", "CHECKED_IN"} )
        => ~SameRoomOverlap(i, j)

\* a check-in attempt on booking pk, by the view or by the model's method
CheckInAttempt(pk) == booking_check_in(pk) \/ Booking_check_in(pk)

\* a check-out attempt on booking pk, by the view or by the model's method
CheckOutAttempt(pk) == booking_check_out(pk) \/ Booking_check_out(pk)

\* C2: a check-in of a PENDING or CONFIRMED booking sets the booking to
\* CHECKED_IN and its room to OCCUPIED; a check-in attempted on a booking that
\* is already CHECKED_IN fails and the booking stays CHECKED_IN.
CheckInThenNoSecondCheckIn ==
    [][\A pk \in BookingPks :
        /\ ( CheckInAttempt(pk) /\ bookings[pk].status \in {"PENDING", "CONFIRMED"} )
           => /\ bookings'[pk].status = "CHECKED_IN"
              /\ room_status'[bookings[pk].room] = "OCCUPIED"
              /\ errors' = {}
        /\ ( CheckInAttempt(pk) /\ bookings[pk].status = "CHECKED_IN" )
           => /\ errors' = {"InvalidTransition"}
              /\ bookings'[pk].status = "CHECKED_IN"
    ]_vars

\* C2 happens: a booking checked in by the model's method, its room occupied,
\* and the last request refused as an invalid transition
SecondCheckInRefused ==
    \E pk \in BookingPks :
        /\ bookings[pk].status = "CHECKED_IN"
        /\ bookings[pk].actual_check_in_time # NoTime
        /\ room_status[bookings[pk].room] = "OCCUPIED"
        /\ errors = {"InvalidTransition"}

\* C3: a check-out of a CHECKED_IN booking sets the booking to CHECKED_OUT and
\* its room to AVAILABLE; a check-out from any other status fails; a cancel of
\* a CHECKED_OUT booking fails and the booking stays CHECKED_OUT.
CheckOutThenNoCancel ==
    [][\A pk \in BookingPks :
        /\ ( CheckOutAttempt(pk) /\ bookings[pk].status = "CHECKED_IN" )
           => /\ bookings'[pk].status = "CHECKED_OUT"
              /\ room_status'[bookings[pk].room] = "AVAILABLE"
              /\ errors' = {}
        /\ ( CheckOutAttempt(pk) /\ bookings[pk].status # "CHECKED_IN" )
           => /\ errors' = {"InvalidTransition"}
              /\ bookings'[pk].status = bookings[pk].status
        /\ ( booking_cancel(pk) /\ bookings[pk].status = "CHECKED_OUT" )
           => /\ errors' = {"InvalidTransition"}
              /\ bookings'[pk].status = "CHECKED_OUT"
    ]_vars

\* C3 happens: a booking checked out by the model's method, its room free,
\* and the last request refused as an invalid transition
CheckedOutAndRefused ==
    \E pk \in BookingPks :
        /\ bookings[pk].status = "CHECKED_OUT"
        /\ bookings[pk].actual_check_out_time # NoTime
        /\ room_status[bookings[pk].room] = "AVAILABLE"
        /\ errors = {"InvalidTransition"}

TerminalStatuses == {"CHECKED_OUT", "CANCELED", "NO_SHOW"}

\* C4: once a booking's status is CHECKED_OUT, CANCELED or NO_SHOW, no
\* operation changes that booking's status again.
TerminalStatusIsFinal ==
    [][\A pk \in BookingPks :
        bookings[pk].status \in TerminalStatuses
        => bookings'[pk].status = bookings[pk].status
    ]_vars

\* C5: a check-in, check-out or cancel attempted on a booking whose status
\* does not satisfy the guard reports failure and leaves the booking table
\* (statuses and timestamps) and every room's status as they were.
RefusedTransitionChangesNothing ==
    [][\A pk \in BookingPks :
        /\ ( CheckInAttempt(pk) /\ bookings[pk].status \notin {"PENDING", "CONFIRMED"} )
           => errors' = {"InvalidTransition"}
              /\ UNCHANGED <<bookings, room_status, checkins>>
        /\ ( CheckOutAttempt(pk) /\ bookings[pk].status # "CHECKED_IN" )
           => errors' = {"InvalidTransition"}
              /\ UNCHANGED <<bookings, room_status, checkins>>
        /\ ( booking_cancel(pk) /\ bookings[pk].status \notin {"PENDING", "CONFIRMED"} )
           => errors' = {"InvalidTransition"}
              /\ UNCHANGED <<bookings, room_status, checkins>>
    ]_vars

\* C5 happens: the last request was refused as an invalid transition while a
\* booking in a terminal status sits on a room that is RESERVED or in
\* MAINTENANCE
TransitionRefused ==
    /\ errors = {"InvalidTransition"}
    /\ \E pk \in BookingPks :
        /\ bookings[pk].status \in TerminalStatuses
        /\ room_status[bookings[pk].room] \in {"RESERVED", "MAINTENANCE"}

----------------------------------------------------------------------------
(* Properties of the availability check and of the date validation.        *)

\* the bookings other than pk that block the room of form d on its nights
OtherBlockers(pk, d) ==
    { j \in BookingPks \ {pk} :
        /\ bookings[j].room = d.room
        /\ bookings[j].status \in {"CONFIRMED", "CHECKED_IN"}
        /\ Overlap(d.check_in_date, d.check_out_date,
                   bookings[j].check_in_date, bookings[j].check_out_date) }

\* C6: the conflict query is the half-open overlap test: for a CONFIRMED
\* booking b, the query over b's own room and range returns b, and the query
\* over a range that ends at b's check-in date or starts at b's check-out date
\* does not; a new booking over b's range is refused with an availability
\* conflict, and one that abuts b is not refused on account of b.
HalfOpenConflictQuery ==
    \A i \in BookingPks :
        bookings[i].status = "CONFIRMED" =>
        LET b == bookings[i]
        IN  /\ i \in overlapping_bookings(0, b.room, b.check_in_date, b.check_out_date)
            /\ b.room \in booked_room_ids(b.check_in_date, b.check_out_date)
            /\ \A p \in DatePairs :
                 p[1] < p[2] =>
                   /\ i \in overlapping_bookings(0, b.room, p[1], p[2])
                        <=> (p[1] < b.check_out_date /\ b.check_in_date < p[2])
                   /\ (p[2] = b.check_in_date \/ p[1] = b.check_out_date)
                        => i \notin overlapping_bookings(0, b.room, p[1], p[2])
            /\ \A d \in DateInputs :
                 d.room = b.room /\ d.check_in_date >= today =>
                   /\ ( d.check_in_date = b.check_in_date
                        /\ d.check_out_date = b.check_out_date )
                      => "AvailabilityConflict" \in BookingFormErrors(0, d)
                   /\ ( d.check_in_date < d.check_out_date
                        /\ ( d.check_out_date = b.check_in_date
                             \/ d.check_in_date = b.check_out_date )
                        /\ OtherBlockers(i, d) = {} )
                      => "AvailabilityConflict" \notin BookingFormErrors(0, d)
                         /\ b.room \notin booked_room_ids(d.check_in_date,
                                                         d.check_out_date)

\* C6 happens: two CONFIRMED bookings stored back to back on one room, and
\* the last request refused for an availability conflict
BackToBackStored ==
    /\ errors = {"AvailabilityConflict"}
    /\ \E i, j \in BookingPks :
        /\ bookings[i].status = "CONFIRMED" /\ bookings[j].status = "CONFIRMED"
        /\ bookings[i].room = bookings[j].room
        /\ bookings[j].check_out_date = bookings[i].check_in_date

\* C7: a booking form is refused with an availability conflict only when a
\* booking with status CONFIRMED or CHECKED_IN overlaps it on its room; an
\* overlapping PENDING, CANCELED, NO_SHOW or CHECKED_OUT booking never is
\* the cause.
OnlyBlockingStatusesConflict ==
    \A pk \in {0} \cup BookingPks :
        \A d \in DateInputs :
            "AvailabilityConflict" \in BookingFormErrors(pk, d)
            => OtherBlockers(pk, d) # {}

\* C7 happens: on one room and overlapping nights, a booking in a
\* non-blocking status lies under a CONFIRMED booking whose form is valid
NonBlockingOverlapAccepted ==
    \E j \in BookingPks :
        /\ bookings[j].status = "CONFIRMED"
        /\ BookingFormErrors(j, FormOf(bookings[j])) = {}
        /\ \E i \in BookingPks :
            /\ i # j
            /\ bookings[i].status \in {"PENDING", "CANCELED", "NO_SHOW", "CHECKED_OUT"}
            /\ SameRoomOverlap(i, j)

\* C8: on an edit the booking's own row is excluded from the conflict set:
\* posting a CONFIRMED booking back unchanged is never refused with an
\* availability conflict unless another blocking booking overlaps it, and a
\* form that another blocking booking overlaps is always refused.
EditExcludesOwnRow ==
    \A pk \in BookingPks :
        /\ ( bookings[pk].status = "CONFIRMED"
             /\ OtherBlockers(pk, FormOf(bookings[pk])) = {} )
           => "AvailabilityConflict" \notin BookingFormErrors(pk, FormOf(bookings[pk]))
        /\ \A d \in DateInputs :
             OtherBlockers(pk, d) # {} => BookingFormErrors(pk, d) # {}

\* C8 happens: a CONFIRMED booking that the conflict query of a new form
\* would return, whose own form is valid, while the form that moves it onto
\* another blocking booking is refused
OwnRowWouldConflict ==
    \E pk \in BookingPks :
        /\ bookings[pk].status = "CONFIRMED"
        /\ pk \in overlapping_bookings(0, bookings[pk].room,
                      bookings[pk].check_in_date, bookings[pk].check_out_date)
        /\ BookingFormErrors(pk, FormOf(bookings[pk])) = {}
        /\ \E d \in DateInputs :
            /\ OtherBlockers(pk, d) # {}
            /\ "AvailabilityConflict" \in BookingFormErrors(pk, d)

\* C9: every stored booking has check_out_date > check_in_date; every
\* create or update form with check_out_date <= check_in_date is refused
\* with InvalidDateRange; and a request that reports InvalidDateRange writes
\* nothing.
EmptyStayRefused ==
    /\ [](/\ \A pk \in BookingPks :
               bookings[pk].check_out_date > bookings[pk].check_in_date
          /\ \A pk \in {0} \cup BookingPks :
               \A d \in DateInputs :
                   d.check_out_date <= d.check_in_date
                   => "InvalidDateRange" \in BookingFormErrors(pk, d))
    /\ [][ "InvalidDateRange" \in errors'
           => UNCHANGED <<bookings, room_status, checkins>> ]_vars

\* C9 happens: with a booking stored, the last request was refused for its
\* date range
DateRangeRefused ==
    /\ Len(bookings) > 0
    /\ errors = {"InvalidDateRange"}

\* C10: editing a stored booking whose check-in date is already in the past
\* succeeds when every other validation passes.
PastBookingEditable ==
    \A pk \in BookingPks :
        LET d == FormOf(bookings[pk])
        IN  ( /\ d.check_in_date < today
              /\ d.check_out_date > d.check_in_date
              /\ OtherBlockers(pk, d) = {}
              /\ ~CapacityExceeded(d.room, d.number_of_adults, d.number_of_children) )
            => BookingFormErrors(pk, d) = {}

----------------------------------------------------------------------------
(* Properties of the capacity check and of the status of a new booking.    *)

\* C11: a create or update form whose adults + children exceed the capacity
\* of the room's type is refused, with CapacityExceeded when its room is a
\* valid choice and its date range is valid; a form on a room whose type has
\* no capacity is never refused for capacity; a request that reports
\* CapacityExceeded writes nothing; and every stored booking on a room with a
\* known capacity has total_guests <= capacity.
CapacityRespected ==
    /\ [](/\ \A pk \in BookingPks :
               capacity(bookings[pk].room) # 0
               => total_guests(bookings[pk]) <= capacity(bookings[pk].room)
          /\ \A pk \in {0} \cup BookingPks :
               \A d \in GuestInputs :
                   /\ ( capacity(d.room) # 0
                        /\ d.number_of_adults + d.number_of_children
                               > capacity(d.room) )
                      => /\ BookingFormErrors(pk, d) # {}
                         /\ ( d.room \in RoomChoices(pk)
                              /\ d.check_out_date > d.check_in_date )
                            => "CapacityExceeded" \in BookingFormErrors(pk, d)
                   /\ capacity(d.room) = 0
                      => "CapacityExceeded" \notin BookingFormErrors(pk, d))
    /\ [][ "CapacityExceeded" \in errors'
           => UNCHANGED <<bookings, room_status, checkins>> ]_vars

\* C11 happens: the last request was refused for capacity alone, while a
\* party as large as the capacity is stored on r1 and a larger party is stored
\* on r2, whose type has no capacity
PartyOverCapacityRefused ==
    /\ errors = {"CapacityExceeded"}
    /\ \E i, j \in BookingPks :
        /\ bookings[i].room = "r1"
        /\ total_guests(bookings[i]) = capacity("r1")
        /\ bookings[j].room = "r2"
        /\ total_guests(bookings[j]) > capacity("r1")

\* C12: every newly created booking starts in status CONFIRMED or PENDING,
\* never in CHECKED_IN, CHECKED_OUT, CANCELED or NO_SHOW.
NewBookingStartsConfirmedOrPending ==
    [][ Len(bookings') > Len(bookings)
        => bookings'[Len(bookings')].status \in {"CONFIRMED", "PENDING"} ]_vars

----------------------------------------------------------------------------
(* Properties of the check-in record and of the transitions' effects.      *)

\* the row a request has just added to the CheckIn table
CreatedCheckIn == checkins'[Len(checkins')]

\* C13: a successful creation of a check-in record linked to a booking sets
\* that booking's status to CHECKED_IN and the status of the booking's room
\* to OCCUPIED.
LinkedCheckInOccupiesBookedRoom ==
    [][ ( Len(checkins') > Len(checkins) /\ CreatedCheckIn.booking # NoBooking )
        => /\ bookings'[CreatedCheckIn.booking].status = "CHECKED_IN"
           /\ room_status'[bookings'[CreatedCheckIn.booking].room] = "OCCUPIED"
      ]_vars

\* C14: the creation of a check-in record linked to a booking succeeds when
\* the booking is PENDING or CONFIRMED, and for a booking in any other status
\* it fails and changes neither the bookings, the rooms nor the check-ins.
LinkedCheckInIsGuarded ==
    [][ \A d \in CheckInInputs :
          ( checkin_create(d) /\ d.booking # NoBooking )
          => IF can_check_in(bookings[d.booking])
             THEN /\ errors' = {}
                  /\ Len(checkins') = Len(checkins) + 1
             ELSE /\ errors' # {}
                  /\ UNCHANGED <<bookings, room_status, checkins>>
      ]_vars

\* C15: in every state a CHECKED_IN booking has its actual_check_in_time set
\* and a CHECKED_OUT booking has its actual_check_out_time set, whichever
\* entry point performed the transition.
TimestampsFollowStatus ==
    \A pk \in BookingPks :
        /\ bookings[pk].status = "CHECKED_IN"
           => bookings[pk].actual_check_in_time # NoTime
        /\ bookings[pk].status = "CHECKED_OUT"
           => bookings[pk].actual_check_out_time # NoTime

\* C16: a cancel of a PENDING or CONFIRMED booking succeeds and sets its
\* status to CANCELED, changing nothing else of the booking table; the
\* booking's room becomes AVAILABLE if and only if it was RESERVED, and keeps
\* its status when it was AVAILABLE, OCCUPIED or in MAINTENANCE; no other
\* room changes.
CancelFreesOnlyReservedRoom ==
    [][ \A pk \in BookingPks :
          ( booking_cancel(pk) /\ bookings[pk].status \in {"PENDING", "CONFIRMED"} )
          => LET room == bookings[pk].room
             IN  /\ errors' = {}
                 /\ bookings' = [bookings EXCEPT ![pk].status = "CANCELED"]
                 /\ room_status[room] = "RESERVED"
                    => room_status'[room] = "AVAILABLE"
                 /\ room_status[room] \in {"AVAILABLE", "OCCUPIED", "MAINTENANCE"}
                    => room_status'[room] = room_status[room]
                 /\ room_status'[room] # room_status[room]
                    <=> room_status[room] = "RESERVED"
                 /\ \A r \in Rooms \ {room} : room_status'[r] = room_status[r]
      ]_vars

\* C16 happens: a booking is CANCELED, which only a cancel does to a booking
\* that started CONFIRMED or PENDING, and its room is still OCCUPIED or in
\* MAINTENANCE
CanceledOnBusyRoom ==
    \E pk \in BookingPks :
        /\ bookings[pk].status = "CANCELED"
        /\ room_status[bookings[pk].room] \in {"OCCUPIED", "MAINTENANCE"}

----------------------------------------------------------------------------
(* Properties of requests served at the same time.                         *)

\* C17: two concurrent creations for overlapping nights on one room never
\* both commit as blocking bookings: among bookings that were all created
\* CONFIRMED and moved on by check-in and check-out only, no two that are
\* CONFIRMED or CHECKED_IN share a room and a night.
ConcurrentCreatesNeverOverlap ==
    \A i \in BookingPks : \A j \in BookingPks \ {i} :
        ( /\ bookings[i].status \in BlockingStatuses
          /\ bookings[j].status \in BlockingStatuses
          /\ bookings[i].room = bookings[j].room )
        => \/ bookings[i].check_out_date <= bookings[j].check_in_date
           \/ bookings[j].check_out_date <= bookings[i].check_in_date

\* C18: a lifecycle transition writes Booking.status and Room.status in one
\* step: the step that makes a booking CHECKED_IN leaves its room OCCUPIED
\* and the step that makes it CHECKED_OUT leaves its room AVAILABLE, so that
\* no other request reads the new status beside the old room status.
StatusAndRoomChangeTogether ==
    [][ \A pk \in BookingPks :
          /\ ( bookings[pk].status # "CHECKED_IN"
               /\ bookings'[pk].status = "CHECKED_IN" )
             => room_status'[bookings'[pk].room] = "OCCUPIED"
          /\ ( bookings[pk].status # "CHECKED_OUT"
               /\ bookings'[pk].status = "CHECKED_OUT" )
             => room_status'[bookings'[pk].room] = "AVAILABLE"
      ]_vars

----------------------------------------------------------------------------
(* Properties of validation at the check-in desk.                          *)

\* the validation errors of the booking form and of the check-in form
ValidationErrors ==
    {"InvalidDateRange", "CapacityExceeded", "AvailabilityConflict",
     "GuestBookingMismatch", "PaymentOverAdvance", "SameDayRoomConflict"}

\* C19: a booking or check-in request that ends in a validation error
\* (invalid date range, capacity exceeded, availability conflict, guest and
\* booking mismatch, advance over total, same-day room conflict) leaves the
\* bookings, the check-ins and every room's status as they were.
ValidationErrorWritesNothing ==
    [][ errors' \cap ValidationErrors # {}
        => UNCHANGED <<bookings, checkins, room_status>> ]_vars

\* C19 happens: with a booking and a check-in stored and a room still free,
\* the last request was refused because the guest is not the booking's
ValidationErrorReported ==
    /\ errors = {"GuestBookingMismatch"}
    /\ Len(bookings) > 0
    /\ Len(checkins) > 0
    /\ \E r \in Rooms : room_status[r] = "AVAILABLE"

\* C20: in every state every stored check-in record has
\* advance_payment <= total_amount.
AdvanceWithinTotal ==
    \A pk \in CheckInPks :
        checkins[pk].advance_payment <= checkins[pk].total_amount

----------------------------------------------------------------------------
(* Properties of the check-in records.                                     *)

\* C21: in every state no room has two distinct check-in records whose
\* check-in timestamps fall on the same calendar day.
OneCheckInPerRoomPerDay ==
    \A i \in CheckInPks : \A j \in CheckInPks \ {i} :
        checkins[i].room_number = checkins[j].room_number
        => DateOf(checkins[i].actual_check_in_date_time)
               # DateOf(checkins[j].actual_check_in_date_time)

\* C23: in every state, later booking edits included, every check-in record
\* with a booking set has the guest of that booking.
CheckInGuestIsBookingGuest ==
    \A pk \in CheckInPks :
        checkins[pk].booking # NoBooking
        => checkins[pk].guest = bookings[checkins[pk].booking].guest

\* C22: no two check-in records share an id, and the id generated for the
\* next check-in, the day and the sequence number after those of the day's
\* check-ins, is the id of no stored record, whatever timestamps and typed
\* ids the earlier creations carried.
CheckInIdsUniqueAndSequential ==
    /\ \A i \in CheckInPks : \A j \in CheckInPks \ {i} :
          checkins[i].check_in_id # checkins[j].check_in_id
    /\ \A i \in CheckInPks : checkins[i].check_in_id # GeneratedId

----------------------------------------------------------------------------
(* Properties of the pricing.                                              *)

\* C24: the total stored with a booking follows the priority order: the rate
\* plan's total when the booking has a plan, which the form takes only among
\* the active plans, and the plan computes one; else the room type's price
\* per night times the nights when the type has a price; else the room's
\* default rate times the nights.  A plan that raises an error is passed over
\* and the error is not reported.
PriceFollowsPriorityOrder ==
    \A pk \in BookingPks :
        LET b == bookings[pk]
            nights == b.check_out_date - b.check_in_date
            planned == calculate_total_rate(b.rate_plan, nights,
                           b.number_of_adults + b.number_of_children)
        IN  /\ b.rate_plan \notin InactivePlans
            /\ b.total_amount =
                   IF b.rate_plan \in RatePlans /\ planned # RateError
                       THEN planned
                   ELSE IF room_rates[b.room].price_per_night # 0
                       THEN room_rates[b.room].price_per_night * nights
                   ELSE room_rates[b.room].rate_default * nights

\* a booking with a working plan on a room whose type has a price: the plan's
\* total is stored, not the type's
PlanTotalStoredOverTypePrice ==
    \E pk \in BookingPks :
        /\ bookings[pk].rate_plan = "flat"
        /\ room_rates[bookings[pk].room].price_per_night # 0
        /\ bookings[pk].total_amount =
               calculate_total_rate("flat", bookings[pk].check_out_date
                                            - bookings[pk].check_in_date, 1)
        /\ errors = {}

\* C25: a booking with no rate plan on a room whose type has no price has the
\* total rate_default x nights, the nights being check_out_date minus
\* check_in_date in whole days.
DefaultRateTimesNights ==
    \A pk \in BookingPks :
        (/\ bookings[pk].rate_plan = NoRatePlan
         /\ room_rates[bookings[pk].room].price_per_night = 0)
        => bookings[pk].total_amount =
               room_rates[bookings[pk].room].rate_default
               * (bookings[pk].check_out_date - bookings[pk].check_in_date)

\* three nights at 1000 a night: 3000
ThreeNightsAtDefaultRate ==
    \E pk \in BookingPks :
        /\ bookings[pk].rate_plan = NoRatePlan
        /\ room_rates[bookings[pk].room].price_per_night = 0
        /\ room_rates[bookings[pk].room].rate_default = 1000
        /\ bookings[pk].check_out_date - bookings[pk].check_in_date = 3
        /\ bookings[pk].total_amount = 3000

\* C26: the price computed for a stay of no night or of a negative number of
\* nights is zero whatever the plan and the prices, and the total stored with
\* a booking is zero when its plan, if any, computes no total and its room
\* has neither a type price nor a default rate.
ZeroWhenNoNightOrNoRate ==
    /\ \A d \in PricingInputs :
          d.check_out_date - d.check_in_date <= 0
          => calculate_total_amount(construct_instance(NewBooking, d)) = 0
    /\ \A pk \in BookingPks :
          (/\ \/ bookings[pk].rate_plan \notin RatePlans
              \/ calculate_total_rate(bookings[pk].rate_plan,
                     bookings[pk].check_out_date - bookings[pk].check_in_date,
                     bookings[pk].number_of_adults
                     + bookings[pk].number_of_children) = RateError
           /\ room_rates[bookings[pk].room].price_per_night = 0
           /\ room_rates[bookings[pk].room].rate_default = 0)
          => bookings[pk].total_amount = 0

\* a booking whose plan fails, on a room with no price at all: stored with 0
NothingResolvedStoredZero ==
    \E pk \in BookingPks :
        /\ bookings[pk].rate_plan = "broken"
        /\ room_rates[bookings[pk].room].price_per_night = 0
        /\ room_rates[bookings[pk].room].rate_default = 0
        /\ bookings[pk].check_out_date > bookings[pk].check_in_date
        /\ bookings[pk].total_amount = 0

\* C27: a creation whose form carries a total_amount that is not zero stores
\* the booking with that total_amount, unchanged.
TypedTotalIsStored ==
    [][\A d \in PricingInputs :
          (booking_create(d) /\ errors' = {} /\ d.total_amount > 0)
          => bookings'[Len(bookings')].total_amount = d.total_amount]_vars

----------------------------------------------------------------------------
(* Properties of the availability search.                                  *)

\* C28: for every valid search form, the rooms the search lists are exactly
\* the rooms that have the status AVAILABLE, have no CONFIRMED or CHECKED_IN
\* booking whose stay [check_in_date, check_out_date) overlaps the range
\* asked for, and have a capacity of at least the adults plus the children,
\* or no capacity defined.
SearchListsExactlyTheFreeRooms ==
    \A d \in SearchInputs :
        BookingSearchFormErrors(d) = {}
        => available_rooms_queryset(d) =
               { r \in Rooms :
                   /\ room_status[r] = "AVAILABLE"
                   /\ ~ \E i \in BookingPks :
                          /\ bookings[i].room = r
                          /\ bookings[i].status \in {"CONFIRMED", "CHECKED_IN"}
                          /\ bookings[i].check_in_date < d.check_out_date
                          /\ d.check_in_date < bookings[i].check_out_date
                   /\ \/ capacity(r) = 0
                      \/ capacity(r) >= d.number_of_adults
                                        + d.number_of_children }

\* a search that lists room r2 and leaves out room r1, AVAILABLE but booked
SearchLeftOutBookedRoom ==
    /\ errors = {}
    /\ available_rooms = {"r2"}
    /\ room_status["r1"] = "AVAILABLE"
    /\ \E i \in BookingPks :
           bookings[i].room = "r1" /\ bookings[i].status = "CONFIRMED"

----------------------------------------------------------------------------
(* Properties of the amounts of a check-in record.                         *)

\* C29: for every check-in record, remaining_amount is total_amount minus
\* advance_payment, and payment_percentage is advance_payment x 100 over
\* total_amount when total_amount > 0 and 0 when total_amount is 0; it never
\* divides by zero.
AmountsOfCheckIn ==
    \A pk \in CheckInPks :
        LET c == checkins[pk]
        IN  /\ remaining_amount(c) + c.advance_payment = c.total_amount
            /\ payment_percentage(c)[2] # 0
            /\ c.total_amount > 0
               => payment_percentage(c)[1] * c.total_amount
                  = c.advance_payment * 100 * payment_percentage(c)[2]
            /\ c.total_amount = 0
               => payment_percentage(c)[1] = 0

\* a record with an advance paid and no total: its percentage is 0
AdvanceWithoutTotal ==
    \E pk \in CheckInPks :
        /\ checkins[pk].total_amount = 0
        /\ checkins[pk].advance_payment > 0
        /\ payment_percentage(checkins[pk]) = <<0, 1>>
        /\ remaining_amount(checkins[pk]) = 0 - checkins[pk].advance_payment

\* what CheckIn.save() is to store for form d: the booking's value where the
\* record has a booking and the form left the field blank or zero, else the
\* form's value
DefaultedFromBooking(c, d) ==
    /\ c.total_amount =
           IF d.booking # NoBooking /\ d.total_amount = 0
           THEN bookings[d.booking].total_amount
           ELSE d.total_amount
    /\ c.expected_check_out_date =
           IF d.booking # NoBooking /\ d.expected_check_out_date = NoDate
           THEN bookings[d.booking].check_out_date
           ELSE d.expected_check_out_date

\* C30: a check-in record saved with a booking takes the booking's
\* total_amount when its own is absent or zero and the booking's
\* check_out_date when its expected check-out date is absent; a total that
\* is not zero and a date that were supplied are stored unchanged, and a
\* record with no booking is stored as supplied.
CheckInDefaultsFromBooking ==
    [][/\ \A d \in FolioCheckInInputs :
            (checkin_create(d) /\ errors' = {})
            => DefaultedFromBooking(checkins'[Len(checkins')], d)
       /\ \A pk \in CheckInPks : \A d \in FolioCheckInInputs :
            (checkin_update(pk, d) /\ errors' = {})
            => DefaultedFromBooking(checkins'[pk], d)
       /\ \A d \in FolioQuickInputs :
            (quick_checkin(d) /\ errors' = {})
            => /\ checkins'[Len(checkins')].total_amount = d.total_amount
               /\ checkins'[Len(checkins')].expected_check_out_date
                  = d.expected_check_out_date]_vars

\* a record with a booking, stored with the booking's total and with the
\* expected check-out date that was typed in
TotalDefaultedDateKept ==
    \E pk \in CheckInPks :
        /\ checkins[pk].booking # NoBooking
        /\ checkins[pk].total_amount = bookings[checkins[pk].booking].total_amount
        /\ checkins[pk].total_amount # TypedTotal
        /\ checkins[pk].expected_check_out_date = MaxDay
        /\ bookings[checkins[pk].booking].check_out_date # MaxDay

----------------------------------------------------------------------------
(* Properties of the check-in form.                                        *)

\* C31: a check-in form whose timestamp is more than one hour after the time
\* of processing is refused, and no stored check-in has such a timestamp; a
\* timestamp at most one hour ahead, or in the past, is not refused for it.
FutureCheckInRefused ==
    /\ \A pk \in CheckInPks :
          checkins[pk].actual_check_in_date_time <= now + 1
    /\ \A pk \in {0} \cup CheckInPks : \A d \in TimeInputs :
          /\ d.actual_check_in_date_time > now + 1
             => CheckInFormErrors(pk, d) # {}
          /\ d.actual_check_in_date_time <= now + 1
             => "FutureCheckIn" \notin CheckInFormErrors(pk, d)

\* a form refused for its timestamp alone, next to a check-in stored with a
\* timestamp one hour ahead
FutureCheckInReported ==
    /\ errors = {"FutureCheckIn"}
    /\ \E pk \in CheckInPks : checkins[pk].actual_check_in_date_time = now + 1

\* C32: a check-in form with an expected check-out date that is not strictly
\* later than the date of its timestamp is refused, a date equal to it
\* included, and every stored check-in with an expected check-out date has
\* it after the date of its timestamp.
ExpectedCheckOutAfterCheckInDate ==
    /\ \A pk \in CheckInPks :
          checkins[pk].expected_check_out_date # NoDate
          => checkins[pk].expected_check_out_date
             > DateOf(checkins[pk].actual_check_in_date_time)
    /\ \A pk \in {0} \cup CheckInPks : \A d \in TimeInputs :
          (/\ d.expected_check_out_date # NoDate
           /\ d.expected_check_out_date <= DateOf(d.actual_check_in_date_time))
          => CheckInFormErrors(pk, d) # {}

\* a form refused for its expected check-out date, on a day when a check-out
\* the day after is stored
ExpectedCheckOutReported ==
    /\ errors = {"InvalidCheckOutDate"}
    /\ \E pk \in CheckInPks :
          checkins[pk].expected_check_out_date
          = DateOf(checkins[pk].actual_check_in_date_time) + 1

----------------------------------------------------------------------------
(* Properties of rooms and their occupants.                                *)

\* C33: in every state at most one booking of a room is CHECKED_IN.
OneCheckedInBookingPerRoom ==
    \A i \in BookingPks : \A j \in BookingPks \ {i} :
        (bookings[i].status = "CHECKED_IN" /\ bookings[j].status = "CHECKED_IN")
        => bookings[i].room # bookings[j].room

\* C34: in every state a room with a CHECKED_IN booking is OCCUPIED.
CheckedInRoomIsOccupied ==
    \A pk \in BookingPks :
        bookings[pk].status = "CHECKED_IN"
        => room_status[bookings[pk].room] = "OCCUPIED"

\* C35: in every state no two check-in records are for the same booking.
OneCheckInPerBooking ==
    \A i \in CheckInPks : \A j \in CheckInPks \ {i} :
        checkins[i].booking # NoBooking
        => checkins[i].booking # checkins[j].booking

\* C36: in every state a check-in record with a booking is for the room of
\* that booking.
CheckInRoomIsBookingRoom ==
    \A pk \in CheckInPks :
        checkins[pk].booking # NoBooking
        => checkins[pk].room_number = bookings[checkins[pk].booking].room

\* C37: no step changes the status of a room that is in MAINTENANCE.
MaintenanceRoomStaysSo ==
    [][\A r \in Rooms :
          room_status[r] = "MAINTENANCE" => room_status'[r] = "MAINTENANCE"]_vars

----------------------------------------------------------------------------
(* Properties of the payment status.                                       *)

\* C38: update_payment_status stores the posted value as the check-in's
\* payment_status when it is one of PENDING, PARTIAL, PAID and REFUNDED; for
\* any other value, and for none, it reports an error and changes neither
\* the check-in records, nor the bookings, nor the rooms.
PaymentStatusGuarded ==
    [][\A pk \in CheckInPks : \A v \in PaymentInputs :
          update_payment_status(pk, v)
          => IF v \in {"PENDING", "PARTIAL", "PAID", "REFUNDED"}
             THEN /\ checkins'[pk].payment_status = v
                  /\ errors' = {}
             ELSE /\ errors' # {}
                  /\ UNCHANGED <<checkins, bookings, room_status>>]_vars

\* a value refused, next to a check-in whose payment status was set to PAID
PaymentStatusRefused ==
    /\ errors = {"InvalidPaymentStatus"}
    /\ \E pk \in CheckInPks : checkins[pk].payment_status = "PAID"

====
